---- MODULE Spec2Model ----
(***************************************************************************)
(* The workflow of MedicalAgentOrchestrator (backend/app/agents/           *)
(* orchestrator.py): one run of process_message through the LangGraph      *)
(* graph built by _build_graph, over the AgentState of state.py.           *)
(*                                                                         *)
(* Python strings are sequences of one-character strings.  Long fixed      *)
(* texts are abbreviated to a few characters that keep their shape (the    *)
(* leading and trailing newline, the blank lines).                         *)
(***************************************************************************)
EXTENDS Integers, Sequences, FiniteSets, TLC

(***************************************************************************)
(* Bounds of the model.                                                    *)
(***************************************************************************)
\* the largest number of uploaded reports in the caller context
MaxReports == 2
\* the longest text handed to _format_response on its own
MaxLen == 5

(***************************************************************************)
(* Strings.                                                                *)
(***************************************************************************)
NL == "\n"
SP == " "
STAR == "*"

\* str.strip() with no argument removes white space at both ends
IsSpace(c) == c \in {SP, NL}

RECURSIVE LStrip(_)
LStrip(s) ==
  IF s = <<>> THEN <<>>
  ELSE IF IsSpace(Head(s)) THEN LStrip(Tail(s)) ELSE s

RECURSIVE RStrip(_)
RStrip(s) ==
  IF s = <<>> THEN <<>>
  ELSE IF IsSpace(s[Len(s)]) THEN RStrip(SubSeq(s, 1, Len(s) - 1)) ELSE s

Strip(s) == RStrip(LStrip(s))

\* sep.join(parts)
RECURSIVE Join(_, _)
Join(sep, parts) ==
  IF parts = <<>> THEN <<>>
  ELSE IF Len(parts) = 1 THEN parts[1]
  ELSE parts[1] \o sep \o Join(sep, Tail(parts))

(***************************************************************************)
(* _format_response: the four re.sub passes and the final strip.           *)
(***************************************************************************)
\* the first j >= from with s[j] = s[j+1] = "*" and no newline in from..j-1
\* (".*?" is lazy and "." does not match a newline); 0 when there is none
RECURSIVE CloseBold(_, _)
CloseBold(s, j) ==
  IF j + 1 > Len(s) THEN 0
  ELSE IF s[j] = STAR /\ s[j + 1] = STAR THEN j
  ELSE IF s[j] = NL THEN 0
  ELSE CloseBold(s, j + 1)

\* re.sub(r'\*\*(.*?)\*\*', r'\1', s), scanning from position i
RECURSIVE SubBold(_, _)
SubBold(s, i) ==
  IF i > Len(s) THEN <<>>
  ELSE IF i + 1 <= Len(s) /\ s[i] = STAR /\ s[i + 1] = STAR
            /\ CloseBold(s, i + 2) # 0
       THEN LET j == CloseBold(s, i + 2)
            IN  SubSeq(s, i + 2, j - 1) \o SubBold(s, j + 2)
       ELSE <<s[i]>> \o SubBold(s, i + 1)

\* the first j >= from with s[j] = "*"; 0 when there is none
RECURSIVE NextStar(_, _)
NextStar(s, j) ==
  IF j > Len(s) THEN 0
  ELSE IF s[j] = STAR THEN j
  ELSE NextStar(s, j + 1)

\* the pattern (?<!\*)\*(?!\*)([^\*]+)\*(?!\*) matches at i and ends at the
\* returned position; 0 when it does not match at i
EmphasisEnd(s, i) ==
  IF /\ s[i] = STAR
     /\ (i = 1 \/ s[i - 1] # STAR)
     /\ i + 1 <= Len(s) /\ s[i + 1] # STAR
  THEN LET j == NextStar(s, i + 2)
       IN  IF j # 0 /\ (j = Len(s) \/ s[j + 1] # STAR) THEN j ELSE 0
  ELSE 0

\* re.sub(r'(?<!\*)\*(?!\*)([^\*]+)\*(?!\*)', r'\1', s), scanning from i
RECURSIVE SubEmphasis(_, _)
SubEmphasis(s, i) ==
  IF i > Len(s) THEN <<>>
  ELSE IF EmphasisEnd(s, i) # 0
       THEN LET j == EmphasisEnd(s, i)
            IN  SubSeq(s, i + 1, j - 1) \o SubEmphasis(s, j + 1)
       ELSE <<s[i]>> \o SubEmphasis(s, i + 1)

\* the length of the run of character c starting at position i
RECURSIVE RunLen(_, _, _)
RunLen(s, i, c) ==
  IF i > Len(s) \/ s[i] # c THEN 0 ELSE 1 + RunLen(s, i + 1, c)

\* re.sub(r'\n{3,}', '\n\n', s), scanning from i
RECURSIVE SubNewlines(_, _)
SubNewlines(s, i) ==
  IF i > Len(s) THEN <<>>
  ELSE IF RunLen(s, i, NL) >= 3
       THEN <<NL, NL>> \o SubNewlines(s, i + RunLen(s, i, NL))
       ELSE <<s[i]>> \o SubNewlines(s, i + 1)

\* re.sub(r'  +', ' ', s), scanning from i
RECURSIVE SubSpaces(_, _)
SubSpaces(s, i) ==
  IF i > Len(s) THEN <<>>
  ELSE IF RunLen(s, i, SP) >= 2
       THEN <<SP>> \o SubSpaces(s, i + RunLen(s, i, SP))
       ELSE <<s[i]>> \o SubSpaces(s, i + 1)

\* _format_response with the strip moved in front of the substitutions
format_response_StripFirst(text) ==
  SubSpaces(SubNewlines(SubEmphasis(SubBold(Strip(text), 1), 1), 1), 1)

format_response(text) ==
  Strip(SubSpaces(SubNewlines(SubEmphasis(SubBold(text, 1), 1), 1), 1))


(***************************************************************************)
(* More of Python's str and list operations used by the nodes.             *)
(***************************************************************************)
UpperLetters == <<"A","B","C","D","E","F","G","H","I","J","K","L","M",
                  "N","O","P","Q","R","S","T","U","V","W","X","Y","Z">>
LowerLetters == <<"a","b","c","d","e","f","g","h","i","j","k","l","m",
                  "n","o","p","q","r","s","t","u","v","w","x","y","z">>

\* str.isupper() of one character
IsUpper(c) == \E k \in 1..Len(UpperLetters) : UpperLetters[k] = c

LowerChar(c) ==
  IF IsUpper(c)
  THEN LowerLetters[CHOOSE k \in 1..Len(UpperLetters) : UpperLetters[k] = c]
  ELSE c

\* str.lower()
Lower(s) == [i \in 1..Len(s) |-> LowerChar(s[i])]

\* sub in s
Contains(s, sub) ==
  \E i \in 1..(Len(s) - Len(sub) + 1) : SubSeq(s, i, i + Len(sub) - 1) = sub

\* the first position >= i of s that holds white space, Len(s) + 1 if none
RECURSIVE WordEnd(_, _)
WordEnd(s, i) ==
  IF i > Len(s) \/ IsSpace(s[i]) THEN i ELSE WordEnd(s, i + 1)

\* str.split() with no argument, scanning from i
RECURSIVE SplitFrom(_, _)
SplitFrom(s, i) ==
  IF i > Len(s) THEN <<>>
  ELSE IF IsSpace(s[i]) THEN SplitFrom(s, i + 1)
  ELSE <<SubSeq(s, i, WordEnd(s, i) - 1)>> \o SplitFrom(s, WordEnd(s, i))

Split(s) == SplitFrom(s, 1)

\* [w for w in words if w[0].isupper() and len(w) > 3] (_medication_agent)
RECURSIVE potential_meds(_)
potential_meds(words) ==
  IF words = <<>> THEN <<>>
  ELSE IF IsUpper(Head(words)[1]) /\ Len(Head(words)) > 3
       THEN <<Head(words)>> \o potential_meds(Tail(words))
       ELSE potential_meds(Tail(words))

\* xs[:n]
Take(xs, n) == SubSeq(xs, 1, IF Len(xs) < n THEN Len(xs) ELSE n)

(***************************************************************************)
(* Python dicts are functions on their keys.                               *)
(***************************************************************************)
EmptyDict == [k \in {} |-> <<>>]
Put(d, k, v) == [x \in (DOMAIN d) \cup {k} |-> IF x = k THEN v ELSE d[x]]
\* Python's None
None == "None"

(***************************************************************************)
(* IntentType (state.py) and the labels of the classifier prompt.          *)
(***************************************************************************)
SYMPTOM_ANALYSIS == "symptom_analysis"
HEALTH_TRACKING == "health_tracking"
MEDICATION_QUERY == "medication_query"
MEDICATION_INTERACTION == "medication_interaction"
REPORT_ANALYSIS == "report_analysis"
DIAGNOSIS_ASSISTANCE == "diagnosis_assistance"
TREATMENT_PLANNING == "treatment_planning"
LIFESTYLE_ADVICE == "lifestyle_advice"
EMERGENCY == "emergency"
GENERAL_MEDICAL_QUERY == "general_medical_query"
SMALL_TALK == "small_talk"
DATA_RETRIEVAL == "data_retrieval"

IntentType ==
  { SYMPTOM_ANALYSIS, HEALTH_TRACKING, MEDICATION_QUERY, MEDICATION_INTERACTION,
    REPORT_ANALYSIS, DIAGNOSIS_ASSISTANCE, TREATMENT_PLANNING, LIFESTYLE_ADVICE,
    EMERGENCY, GENERAL_MEDICAL_QUERY, SMALL_TALK, DATA_RETRIEVAL }

\* what the label line of the classifier's model output can hold: the labels
\* the prompt lists, and text that is no label at all
PromptLabels ==
  (IntentType \ {SMALL_TALK}) \cup {"non_medical_query"}
LabelLines == PromptLabels \cup {"", "Sure! symptom_analysis"}

(***************************************************************************)
(* The graph of _build_graph.                                              *)
(***************************************************************************)
END == "__end__"

AgentNodes ==
  { "symptom_agent", "medication_agent", "report_agent", "diagnosis_agent",
    "lifestyle_agent", "emergency_agent", "general_agent" }

Nodes ==
  {"classify_intent", "retrieve_context", "data_logger", "response_generator"}
    \cup AgentNodes

EntryPoint == "classify_intent"

\* the mapping handed to add_conditional_edges
ConditionalEdges ==
  [k \in { SYMPTOM_ANALYSIS, MEDICATION_QUERY, MEDICATION_INTERACTION,
           REPORT_ANALYSIS, DIAGNOSIS_ASSISTANCE, LIFESTYLE_ADVICE, EMERGENCY,
           "default" } |->
     CASE k = SYMPTOM_ANALYSIS -> "symptom_agent"
       [] k = MEDICATION_QUERY -> "medication_agent"
       [] k = MEDICATION_INTERACTION -> "medication_agent"
       [] k = REPORT_ANALYSIS -> "report_agent"
       [] k = DIAGNOSIS_ASSISTANCE -> "diagnosis_agent"
       [] k = LIFESTYLE_ADVICE -> "lifestyle_agent"
       [] k = EMERGENCY -> "emergency_agent"
       [] OTHER -> "general_agent"]

\* Edge with the handlers wired straight to the response generator
Edge_SkipLogger(node) ==
  CASE node = "classify_intent" -> "retrieve_context"
    [] node \in AgentNodes -> "response_generator"
    [] node = "data_logger" -> "response_generator"
    [] node = "response_generator" -> END

\* the add_edge calls: the one successor of every node but retrieve_context
Edge(node) ==
  CASE node = "classify_intent" -> "retrieve_context"
    [] node \in AgentNodes -> "data_logger"
    [] node = "data_logger" -> "response_generator"
    [] node = "response_generator" -> END

\* _route_by_intent without its final else: an unknown intent is returned
route_by_intent_NoDefault(intent) ==
  IF intent \in {SYMPTOM_ANALYSIS, HEALTH_TRACKING} THEN SYMPTOM_ANALYSIS
  ELSE intent

\* _route_by_intent, on the value of state["intent"]
route_by_intent(intent) ==
  IF intent \in {SYMPTOM_ANALYSIS, HEALTH_TRACKING} THEN SYMPTOM_ANALYSIS
  ELSE IF intent \in {MEDICATION_QUERY, MEDICATION_INTERACTION} THEN intent
  ELSE IF intent = EMERGENCY THEN EMERGENCY
  ELSE IF intent = REPORT_ANALYSIS THEN REPORT_ANALYSIS
  ELSE IF intent = DIAGNOSIS_ASSISTANCE THEN DIAGNOSIS_ASSISTANCE
  ELSE IF intent = LIFESTYLE_ADVICE THEN LIFESTYLE_ADVICE
  ELSE "default"

(***************************************************************************)
(* The channel of agent_responses: Annotated[List[str], add].  Every node  *)
(* returns the whole state, so what it returns under agent_responses is    *)
(* merged by operator.add into the channel's value.  The node is handed    *)
(* the channel's list itself and appends to it in place, so at the merge   *)
(* the channel's value and the returned value are the same list.  Every    *)
(* other field is a last-value channel: the returned value replaces it.    *)
(***************************************************************************)
add(a, b) == a \o b

ChannelUpdate(returned) ==
  [returned EXCEPT !.agent_responses =
      add(returned.agent_responses, returned.agent_responses)]

(***************************************************************************)
(* Requests.                                                               *)
(***************************************************************************)
Messages ==
  { <<"h", "e", "l", "l", "o">>,
    <<"R", "e", "p", "o", "r", "t", " ", "I", "D", ":", " ", "1">>,
    <<"a", "n", "a", "l", "y", "z", "e", " ", "i", "t">>,
    <<"i", "s", " ", "A", "s", "p", "i", "r", "i", "n", " ", "o", "k">> }

\* the caller context: the uploaded reports and the recent symptoms (an
\* absent key reads as the empty list everywhere these are used)
Reports(n) == [i \in 1..n |-> [id |-> i]]
Contexts ==
  { [uploaded_reports |-> Reports(n), recent_symptoms |-> rs] :
      n \in 0..MaxReports, rs \in { <<>>, <<[symptom |-> "cough"]>> } }


(***************************************************************************)
(* What the outside world can answer.                                      *)
(***************************************************************************)
\* response.content of a language-model call
Replies == { <<>>, <<"a">>, <<"*", "*", "b", "*", "*">> }

\* the "Entities:" line of the classifier's model output: absent, not valid
\* JSON, or a JSON object
EntityLines ==
  { [kind |-> "absent", value |-> EmptyDict],
    [kind |-> "malformed", value |-> EmptyDict],
    [kind |-> "json", value |-> [medication |-> <<"A","s","p","i","r","i","n">>]],
    [kind |-> "json", value |-> [condition |-> <<"f","l","u">>]],
    [kind |-> "json", value |-> [symptoms |-> <<"headache">>]] }

\* the "Extracted Data:" section of the symptom analyzer's answer
DataSections ==
  { [kind |-> "absent", value |-> EmptyDict],
    [kind |-> "malformed", value |-> EmptyDict],
    [kind |-> "json", value |-> [symptoms |-> <<[name |-> "headache"]>>]],
    [kind |-> "json", value |-> [vitals |-> <<>>]] }

\* httpx.AsyncClient(timeout=30.0): seconds after which a request fails
timeout == 30
\* seconds a slow request takes that still answers in time
SlowCall == 20

\* how one loop.run_until_complete(api_service.<lookup>(...)) can end: with a
\* payload, with the failure value {"error": ...} the lookup returns when
\* its request fails (here: after the client's timeout), or by raising
CallOutcomes ==
  { [kind |-> "ok", dur |-> 0, message |-> ""],
    [kind |-> "ok", dur |-> SlowCall, message |-> ""],
    [kind |-> "error", dur |-> timeout, message |-> "timed out"],
    [kind |-> "raised", dur |-> 0, message |-> "loop closed"] }

\* asyncio.get_event_loop() in the thread that runs the node: a loop that is
\* running, a loop that is not, or RuntimeError (no current event loop)
LoopStates == {"running", "not_running", "no_loop"}

(***************************************************************************)
(* The state of one run.                                                   *)
(***************************************************************************)
VARIABLES
  pc,         \* "idle", the node to run next, END, "returned" or "raised"
  at,         \* the position inside the node pc: "entry", "calls", "llm"
  state,      \* the AgentState held by the graph's channels
  batch,      \* the external calls of the handler that is running
  executed,   \* the nodes the graph has run, in order
  fragments,  \* the fragments the handler has appended, in order
  model_calls,\* the language-model calls made so far, in order
  route_key,  \* what _route_by_intent returned
  result,     \* what process_message returned
  error,      \* the node whose exception process_message propagated
  call,       \* a call of a MedicalAPIService method: its inputs, its result
  db,         \* the rows the chat endpoint has added for the run's data
  parked      \* the run that waits while this one runs, on the same
              \* orchestrator

vars ==
  <<pc, at, state, batch, executed, fragments, model_calls, route_key, result,
    error, call, db, parked>>

\* one call of self.llm / self.llm_smart by node; a call of the classifier
\* is kept with the label line and the kind of entity line it answered
model_call(node) == [node |-> node, label |-> None, line |-> None]

classifier_call(label, line) ==
  [node |-> "classify_intent", label |-> label, line |-> line.kind]

\* no call of a MedicalAPIService method is under study
NoCall == [method |-> "none"]

NoBatch ==
  [status |-> "none", calls |-> <<>>, started |-> 0, results |-> <<>>,
   elapsed |-> 0, api_data |-> EmptyDict]

\* initial_state of process_message
initial_state(user_message, user_context) ==
  [user_message |-> user_message,
   user_id |-> 1,
   conversation_id |-> 1,
   chat_history |-> <<>>,
   user_context |-> user_context,
   intent |-> None,
   extracted_entities |-> EmptyDict,
   agent_path |-> <<>>,
   agent_responses |-> <<>>,
   final_response |-> <<>>,
   data_to_save |-> EmptyDict,
   actions |-> <<>>,
   external_data |-> EmptyDict,
   metadata |-> EmptyDict]

\* graph.ainvoke(initial_state): the input is written to the channels; the
\* agent_responses channel starts as list() and merges the input with add
InputWrite(input) ==
  [input EXCEPT !.agent_responses = add(<<>>, input.agent_responses)]

Init ==
  /\ pc = "idle"
  /\ at = "entry"
  /\ state = InputWrite(initial_state(<<>>, [uploaded_reports |-> <<>>,
                                             recent_symptoms |-> <<>>]))
  /\ batch = NoBatch
  /\ executed = <<>>
  /\ fragments = <<>>
  /\ model_calls = <<>>
  /\ route_key = None
  /\ result = None
  /\ error = None
  /\ call = NoCall
  /\ db = <<>>
  /\ parked = None

\* process_message up to the first node
ProcessMessage ==
  /\ pc = "idle"
  /\ UNCHANGED <<call, db, parked>>
  /\ \E m \in Messages, c \in Contexts :
       state' = InputWrite(initial_state(m, c))
  /\ pc' = EntryPoint
  /\ UNCHANGED <<at, batch, executed, fragments, model_calls, route_key, result,
               error>>

\* an exception leaves the node and graph.ainvoke, and process_message does
\* not catch it
Raise(node) ==
  /\ pc' = "raised"
  /\ at' = "entry"
  /\ error' = node
  /\ batch' = NoBatch
  /\ UNCHANGED <<state, fragments, route_key, result>>

(***************************************************************************)
(* _classify_intent                                                        *)
(***************************************************************************)
has_report_id(user_message) ==
  \/ Contains(user_message, <<"R","e","p","o","r","t"," ","I","D",":">>)
  \/ Contains(Lower(user_message), <<"r","e","p","o","r","t"," ","i","d">>)

\* state.get("user_context", {}).get("uploaded_reports"), as a truth value
has_uploaded_reports(s) == s.user_context.uploaded_reports # <<>>

\* the shortcut without its second alternative
classify_shortcut_TokenOnly(s) == has_report_id(s.user_message)

classify_shortcut(s) ==
  \/ has_report_id(s.user_message)
  \/ /\ has_uploaded_reports(s)
     /\ \/ Contains(Lower(s.user_message), <<"a","n","a","l","y","z","e">>)
        \/ Contains(Lower(s.user_message), <<"r","e","p","o","r","t">>)

\* the entity line kept as raw text when it does not parse
parse_entities_KeepsRaw(line) ==
  IF line.kind = "json"
  THEN line.value
  ELSE IF line.kind = "malformed" THEN [raw |-> <<"?">>] ELSE EmptyDict

\* json.loads of the entity line inside try/except: pass
parse_entities(line) == IF line.kind = "json" THEN line.value ELSE EmptyDict

classify_intent(s, label, line) ==
  IF classify_shortcut(s)
  THEN [s EXCEPT !.intent = REPORT_ANALYSIS,
                 !.extracted_entities = EmptyDict,
                 !.agent_path = <<"intent_classifier">>]
  ELSE [s EXCEPT !.intent = label,
                 !.extracted_entities = parse_entities(line),
                 !.agent_path = <<"intent_classifier">>]

ClassifyIntent ==
  /\ pc = "classify_intent"
  /\ UNCHANGED <<call, db, parked>>
  /\ executed' = Append(executed, "classify_intent")
  /\ \/ /\ classify_shortcut(state)
        /\ state' = ChannelUpdate(classify_intent(state, None, None))
        /\ pc' = Edge("classify_intent")
        /\ UNCHANGED <<at, batch, fragments, model_calls, route_key, result,
                       error>>
     \/ /\ ~classify_shortcut(state)
        /\ \E label \in LabelLines, line \in EntityLines :
             /\ state' = ChannelUpdate(classify_intent(state, label, line))
             /\ model_calls' =
                  Append(model_calls, classifier_call(label, line))
        /\ pc' = Edge("classify_intent")
        /\ UNCHANGED <<at, batch, fragments, route_key, result, error>>
     \/ /\ ~classify_shortcut(state)     \* self.llm.invoke raises
        /\ model_calls' = Append(model_calls, model_call("classify_intent"))
        /\ Raise("classify_intent")

(***************************************************************************)
(* _retrieve_context, and the conditional edge that leaves it              *)
(***************************************************************************)
\* _retrieve_context that starts the entities afresh
retrieve_context_DropsEntities(s) ==
  [s EXCEPT !.agent_path = Append(@, "context_retriever"),
            !.extracted_entities = EmptyDict]

retrieve_context(s) ==
  [s EXCEPT !.agent_path = Append(@, "context_retriever")]

RetrieveContext ==
  /\ pc = "retrieve_context"
  /\ UNCHANGED <<call, db, parked>>
  /\ executed' = Append(executed, "retrieve_context")
  /\ state' = ChannelUpdate(retrieve_context(state))
  /\ route_key' = route_by_intent(state'.intent)
  /\ IF route_key' \in DOMAIN ConditionalEdges
     THEN /\ pc' = ConditionalEdges[route_key']
          /\ UNCHANGED error
     ELSE /\ pc' = "raised"        \* no such key in the mapping
          /\ error' = "retrieve_context"
  /\ UNCHANGED <<at, batch, fragments, model_calls, result>>


(***************************************************************************)
(* The handlers that make one language-model call.                         *)
(***************************************************************************)
\* the symptom analyzer's answers: plain text, or text that holds an
\* "Extracted Data:" section (written "D")
SymptomReplies ==
  { [content |-> r, section |-> [kind |-> "absent", value |-> EmptyDict]] :
      r \in Replies }
  \cup
  { [content |-> <<"a", "D">>, section |-> d] :
      d \in { x \in DataSections : x.kind # "absent" } }

\* _symptom_agent that empties the symptoms when the section does not parse
symptom_agent_ClearsOnError(s, reply) ==
  LET s1 == [s EXCEPT !.agent_responses = Append(@, reply.content),
                      !.agent_path = Append(@, "symptom_agent")]
  IN  IF reply.section.kind = "absent"
      THEN s1
      ELSE [s1 EXCEPT !.data_to_save =
              Put(@, "symptoms",
                  IF "symptoms" \in DOMAIN reply.section.value
                  THEN reply.section.value["symptoms"] ELSE <<>>)]

symptom_agent(s, reply) ==
  LET s1 == [s EXCEPT !.agent_responses = Append(@, reply.content),
                      !.agent_path = Append(@, "symptom_agent")]
  IN  IF reply.section.kind = "json"
      THEN [s1 EXCEPT !.data_to_save =
              Put(@, "symptoms",
                  IF "symptoms" \in DOMAIN reply.section.value
                  THEN reply.section.value["symptoms"] ELSE <<>>)]
      ELSE s1

SymptomAgent ==
  /\ pc = "symptom_agent"
  /\ UNCHANGED <<call, db, parked>>
  /\ executed' = Append(executed, "symptom_agent")
  /\ \/ /\ \E reply \in SymptomReplies :
             /\ state' = ChannelUpdate(symptom_agent(state, reply))
             /\ fragments' = Append(fragments, reply.content)
        /\ model_calls' = Append(model_calls, model_call("symptom_agent"))
        /\ pc' = Edge("symptom_agent")
        /\ UNCHANGED <<at, batch, route_key, result, error>>
     \/ /\ model_calls' = Append(model_calls, model_call("symptom_agent"))
        /\ Raise("symptom_agent")         \* self.llm_smart.invoke raises

lifestyle_agent(s, content) ==
  [s EXCEPT !.agent_responses = Append(@, content),
            !.agent_path = Append(@, "lifestyle_agent")]

LifestyleAgent ==
  /\ pc = "lifestyle_agent"
  /\ UNCHANGED <<call, db, parked>>
  /\ executed' = Append(executed, "lifestyle_agent")
  /\ \/ /\ \E content \in Replies :
             /\ state' = ChannelUpdate(lifestyle_agent(state, content))
             /\ fragments' = Append(fragments, content)
        /\ model_calls' = Append(model_calls, model_call("lifestyle_agent"))
        /\ pc' = Edge("lifestyle_agent")
        /\ UNCHANGED <<at, batch, route_key, result, error>>
     \/ /\ model_calls' = Append(model_calls, model_call("lifestyle_agent"))
        /\ Raise("lifestyle_agent")       \* self.llm.invoke raises

\* _general_agent that also files the request under its own intent
general_agent_SetsIntent(s, content) ==
  [s EXCEPT !.agent_responses = Append(@, content),
            !.agent_path = Append(@, "general_agent"),
            !.intent = GENERAL_MEDICAL_QUERY]

general_agent(s, content) ==
  [s EXCEPT !.agent_responses = Append(@, content),
            !.agent_path = Append(@, "general_agent")]

GeneralAgent ==
  /\ pc = "general_agent"
  /\ UNCHANGED <<call, db, parked>>
  /\ executed' = Append(executed, "general_agent")
  /\ \/ /\ \E content \in Replies :
             /\ state' = ChannelUpdate(general_agent(state, content))
             /\ fragments' = Append(fragments, content)
        /\ model_calls' = Append(model_calls, model_call("general_agent"))
        /\ pc' = Edge("general_agent")
        /\ UNCHANGED <<at, batch, route_key, result, error>>
     \/ /\ model_calls' = Append(model_calls, model_call("general_agent"))
        /\ Raise("general_agent")         \* self.llm.invoke raises

(***************************************************************************)
(* _emergency_agent                                                        *)
(***************************************************************************)
\* the fixed text: it opens and closes with a newline and holds blank lines
emergency_response == <<NL, "E", NL, NL, "e", NL>>

emergency_agent(s) ==
  [s EXCEPT !.agent_responses = Append(@, emergency_response),
            !.agent_path = Append(@, "emergency_agent")]

EmergencyAgent ==
  /\ pc = "emergency_agent"
  /\ UNCHANGED <<call, db, parked>>
  /\ executed' = Append(executed, "emergency_agent")
  /\ state' = ChannelUpdate(emergency_agent(state))
  /\ fragments' = Append(fragments, emergency_response)
  /\ pc' = Edge("emergency_agent")
  /\ UNCHANGED <<at, batch, model_calls, route_key, result, error>>

(***************************************************************************)
(* _report_agent                                                           *)
(***************************************************************************)
\* "I can help analyze your medical reports. Please upload ..."
upload_prompt == <<"U">>

\* _report_agent with its append to agent_responses after the loop
report_agent_LastOnly(s, contents) ==
  IF s.user_context.uploaded_reports = <<>>
  THEN [s EXCEPT !.agent_responses = Append(@, upload_prompt),
                 !.agent_path = Append(@, "report_agent")]
  ELSE [s EXCEPT !.agent_responses = Append(@, contents[Len(contents)]),
                 !.agent_path = Append(@, "report_agent")]

\* _report_agent with its append to agent_path inside the loop over reports
report_agent_PathPerReport(s, contents) ==
  IF s.user_context.uploaded_reports = <<>>
  THEN [s EXCEPT !.agent_responses = Append(@, upload_prompt),
                 !.agent_path = Append(@, "report_agent")]
  ELSE [s EXCEPT !.agent_responses = @ \o contents,
                 !.agent_path = @ \o [i \in 1..Len(contents) |-> "report_agent"]]

\* contents[i] is the model's answer for the i-th uploaded report
report_agent(s, contents) ==
  IF s.user_context.uploaded_reports = <<>>
  THEN [s EXCEPT !.agent_responses = Append(@, upload_prompt),
                 !.agent_path = Append(@, "report_agent")]
  ELSE [s EXCEPT !.agent_responses = @ \o contents,
                 !.agent_path = Append(@, "report_agent")]

ReportAgent ==
  /\ pc = "report_agent"
  /\ UNCHANGED <<call, db, parked>>
  /\ executed' = Append(executed, "report_agent")
  /\ LET n == Len(state.user_context.uploaded_reports)
     IN  \/ /\ \E contents \in [1..n -> Replies] :
                 /\ state' = ChannelUpdate(report_agent(state, contents))
                 /\ fragments' = fragments \o
                      (IF n = 0 THEN <<upload_prompt>> ELSE contents)
            /\ model_calls' =
                 model_calls \o [i \in 1..n |-> model_call("report_agent")]
            /\ pc' = Edge("report_agent")
            /\ UNCHANGED <<at, batch, route_key, result, error>>
         \/ /\ \E k \in 1..n :          \* the k-th chain.invoke raises
                 model_calls' =
                   model_calls \o [i \in 1..k |-> model_call("report_agent")]
            /\ Raise("report_agent")

(***************************************************************************)
(* _data_logger, _response_generator and the return of process_message     *)
(***************************************************************************)
\* _data_logger without its append to agent_path
data_logger_NoTrace(s) == s

\* _data_logger that already joins the fragments into final_response
data_logger_WritesFinal(s) ==
  [s EXCEPT !.agent_path = Append(@, "data_logger"),
            !.final_response = Join(<<NL, NL>>, s.agent_responses)]

data_logger(s) ==
  LET s1 == [s EXCEPT !.agent_path = Append(@, "data_logger")]
  IN  IF "data_to_save" \notin DOMAIN s1
      THEN [k \in (DOMAIN s1) \cup {"data_to_save"} |->
              IF k = "data_to_save" THEN EmptyDict ELSE s1[k]]
      ELSE s1

DataLogger ==
  /\ pc = "data_logger"
  /\ UNCHANGED <<call, db, parked>>
  /\ executed' = Append(executed, "data_logger")
  /\ state' = ChannelUpdate(data_logger(state))
  /\ pc' = Edge("data_logger")
  /\ UNCHANGED <<at, batch, fragments, model_calls, route_key, result, error>>

\* _response_generator that joins the fragments with a single newline
response_generator_SingleNewline(s) ==
  LET all_responses == s.agent_responses
      raw_response == IF Len(all_responses) = 1
                      THEN all_responses[1]
                      ELSE Join(<<NL>>, all_responses)
  IN  [s EXCEPT !.final_response = format_response(raw_response),
                !.agent_path = Append(@, "response_generator")]

response_generator(s) ==
  LET all_responses == s.agent_responses
      raw_response == IF Len(all_responses) = 1
                      THEN all_responses[1]
                      ELSE Join(<<NL, NL>>, all_responses)
  IN  [s EXCEPT !.final_response = format_response(raw_response),
                !.agent_path = Append(@, "response_generator")]

ResponseGenerator ==
  /\ pc = "response_generator"
  /\ UNCHANGED <<call, db, parked>>
  /\ executed' = Append(executed, "response_generator")
  /\ state' = ChannelUpdate(response_generator(state))
  /\ pc' = Edge("response_generator")
  /\ UNCHANGED <<at, batch, fragments, model_calls, route_key, result, error>>

\* the dict process_message returns from the final state
Return ==
  /\ pc = END
  /\ UNCHANGED <<call, db, parked>>
  /\ result' = [response |-> state.final_response,
                intent |-> state.intent,
                data_to_save |-> state.data_to_save,
                agent_path |-> state.agent_path,
                metadata |-> state.metadata]
  /\ pc' = "returned"
  /\ UNCHANGED <<at, state, batch, executed, fragments, model_calls, route_key,
               error>>


(***************************************************************************)
(* _medication_agent and _diagnosis_agent: the handlers that call the      *)
(* external services (MedicalAPIService) before their model call.          *)
(***************************************************************************)
BatchNodes == {"medication_agent", "diagnosis_agent"}

\* the drug the user asks about; the empty string stands for None as well
\* (the code tests it only for truth)
medication_query(s) ==
  LET extracted_entities == s.extracted_entities
  IN  IF "medication" \in DOMAIN extracted_entities
      THEN extracted_entities["medication"]
      ELSE IF "condition" \in DOMAIN extracted_entities
      THEN <<>>
      ELSE LET meds == potential_meds(Split(s.user_message))
           IN  IF meds # <<>> THEN meds[1] ELSE <<>>

\* symptoms[:3] is what the diagnosis handler looks up
TopSymptoms == 3

\* the symptom list of _diagnosis_agent
diagnosis_symptoms(s) ==
  LET recent == s.user_context.recent_symptoms
      from_context == [i \in 1..Len(recent) |-> recent[i].symptom]
      extracted_entities == s.extracted_entities
  IN  IF "symptoms" \in DOMAIN extracted_entities
      THEN from_context \o extracted_entities["symptoms"]
      ELSE from_context

\* the lookups the handler makes, in the order of its run_until_complete
\* calls; none when it has nothing to look up
requested_calls(node, s) ==
  IF node = "medication_agent"
  THEN IF medication_query(s) # <<>>
       THEN <<"fda_info", "rxnorm_info", "safety_analysis">>
       ELSE <<>>
  ELSE IF diagnosis_symptoms(s) # <<>>
       THEN <<"literature">> \o
            [i \in 1..Len(Take(diagnosis_symptoms(s), TopSymptoms)) |-> "icd10"]
       ELSE <<>>

\* what a lookup that returned hands back
returned_value(outcome) ==
  IF outcome.kind = "ok"
  THEN [kind |-> "payload", message |-> ""]
  ELSE [kind |-> "error", message |-> outcome.message]

IsOk(outcome) == outcome.kind = "ok"

\* api_data once every lookup has returned
collect_api_data(node, results) ==
  IF node = "medication_agent"
  THEN [fda_info |-> returned_value(results[1]),
        rxnorm_info |-> returned_value(results[2]),
        safety_analysis |-> returned_value(results[3])]
  ELSE [literature |-> returned_value(results[1]),
        icd_codes |-> [kind |-> "list",
                       items |-> Len(SelectSeq(Tail(results), IsOk))]]

\* api_data after "except Exception as e"
error_api_data(message) == [error |-> [kind |-> "error", message |-> message]]

\* the handler up to its first lookup
BeginCalls(node) ==
  /\ pc = node
  /\ UNCHANGED <<call, db, parked>>
  /\ at = "entry"
  /\ executed' = Append(executed, node)
  /\ LET wanted == requested_calls(node, state)
     IN  \/ /\ wanted = <<>>
            /\ batch' = NoBatch
            /\ at' = "llm"
         \/ /\ wanted # <<>>
            /\ \E loop \in LoopStates :
                 \/ /\ loop = "no_loop"       \* get_event_loop raises
                    /\ batch' = [NoBatch EXCEPT
                                   !.status = "failed",
                                   !.calls = wanted,
                                   !.api_data = error_api_data("no loop")]
                    /\ at' = "llm"
                 \/ /\ loop = "running"       \* the lookups are skipped
                    /\ batch' = [NoBatch EXCEPT !.status = "skipped",
                                                !.calls = wanted]
                    /\ at' = "llm"
                 \/ /\ loop = "not_running"
                    /\ batch' = [NoBatch EXCEPT !.status = "running",
                                                !.calls = wanted]
                    /\ at' = "calls"
  /\ UNCHANGED <<pc, state, fragments, model_calls, route_key, result, error>>

\* the call the next StartCall starts
NextCall == Len(batch.results) + 1

\* loop.run_until_complete(<lookup>) starts the next lookup: the one before
\* it has returned
StartCall(node) ==
  /\ pc = node
  /\ UNCHANGED <<call, db, parked>>
  /\ at = "calls"
  /\ batch.started = Len(batch.results)
  /\ batch.started < Len(batch.calls)
  /\ batch' = [batch EXCEPT !.started = NextCall]
  /\ UNCHANGED <<pc, at, state, fragments, model_calls, executed, route_key,
               result, error>>

\* the batch after its running lookup ended with outcome
finish_call(node, b, outcome) ==
  LET results == Append(b.results, outcome)
      b1 == [b EXCEPT !.results = results, !.elapsed = @ + outcome.dur]
  IN  IF outcome.kind = "raised"
      THEN [b1 EXCEPT !.status = "failed",
                      !.api_data = error_api_data(outcome.message)]
      ELSE IF Len(results) = Len(b.calls)
      THEN [b1 EXCEPT !.status = "complete",
                      !.api_data = collect_api_data(node, results)]
      ELSE b1

\* loop.run_until_complete(<lookup>) ends
FinishCall(node) ==
  /\ pc = node
  /\ UNCHANGED <<call, db, parked>>
  /\ at = "calls"
  /\ batch.started = Len(batch.results) + 1
  /\ \E outcome \in CallOutcomes :
       batch' = finish_call(node, batch, outcome)
  /\ at' = IF batch'.status = "running" THEN "calls" ELSE "llm"
  /\ UNCHANGED <<pc, state, fragments, model_calls, executed, route_key, result,
               error>>

\* the rest of the handler, with the symptom list built in place on the
\* context's own list
answer_ExtendsContext(node, s, content) ==
  [s EXCEPT !.agent_responses = Append(@, content),
            !.agent_path = Append(@, node),
            !.user_context.recent_symptoms =
               IF node = "diagnosis_agent" /\ "symptoms" \in DOMAIN s.extracted_entities
               THEN Append(@, [symptom |-> "headache"])
               ELSE @]

\* the rest of the handler: the model call, given api_data
answer(node, s, content) ==
  [s EXCEPT !.agent_responses = Append(@, content),
            !.agent_path = Append(@, node)]

Answer(node) ==
  /\ pc = node
  /\ UNCHANGED <<call, db, parked>>
  /\ at = "llm"
  /\ model_calls' = Append(model_calls, model_call(node))
  /\ \/ /\ \E content \in Replies :
             /\ state' = ChannelUpdate(answer(node, state, content))
             /\ fragments' = Append(fragments, content)
        /\ pc' = Edge(node)
        /\ at' = "entry"
        /\ batch' = NoBatch
        /\ UNCHANGED <<executed, route_key, result, error>>
     \/ /\ Raise(node)                 \* self.llm_smart.invoke raises
        /\ UNCHANGED executed

MedicationAgent ==
  \/ BeginCalls("medication_agent")
  \/ StartCall("medication_agent")
  \/ FinishCall("medication_agent")
  \/ Answer("medication_agent")

DiagnosisAgent ==
  \/ BeginCalls("diagnosis_agent")
  \/ StartCall("diagnosis_agent")
  \/ FinishCall("diagnosis_agent")
  \/ Answer("diagnosis_agent")

Next ==
  \/ ProcessMessage
  \/ ClassifyIntent
  \/ RetrieveContext
  \/ SymptomAgent
  \/ MedicationAgent
  \/ ReportAgent
  \/ DiagnosisAgent
  \/ LifestyleAgent
  \/ EmergencyAgent
  \/ GeneralAgent
  \/ DataLogger
  \/ ResponseGenerator
  \/ Return

Spec == Init /\ [][Next]_vars


(***************************************************************************)
(* Properties.                                                             *)
(***************************************************************************)
IsPrefix(a, b) == Len(a) <= Len(b) /\ a = SubSeq(b, 1, Len(a))

Last2(xs) == SubSeq(xs, Len(xs) - 1, Len(xs))

\* the handler that ran, once one has
Handler == executed[3]

\* a batch of lookups was started and has ended
BatchReturned ==
  /\ pc \in BatchNodes
  /\ at = "llm"
  /\ batch.started > 0

\* the key of api_data under which the k-th lookup of a handler is recorded
EntryName(node, k) ==
  IF node = "medication_agent" THEN batch.calls[k]
  ELSE IF k = 1 THEN "literature" ELSE "icd_codes"

EntryNames(node) == { EntryName(node, k) : k \in 1..Len(batch.calls) }

\* seconds from the start of the batch to the end of its k-th lookup
RECURSIVE FinishedAt(_, _)
FinishedAt(results, k) ==
  IF k = 0 THEN 0 ELSE FinishedAt(results, k - 1) + results[k].dur

\* C1: every run that returns yields a non-empty final response, whatever
\* the external services did.
C1_ResponseNeverEmpty ==
  pc = "returned" => result.response # <<>>

\* C2: the nodes of a run execute in the fixed graph order, each once:
\* classify_intent, retrieve_context, the one handler the router selected
\* from state.intent, data_logger, response_generator, then the end.
C2_FixedGraphOrder ==
  /\ \E h \in AgentNodes :
       IsPrefix(executed, <<"classify_intent", "retrieve_context", h,
                            "data_logger", "response_generator">>)
  /\ Len(executed) >= 3 =>
       Handler = ConditionalEdges[route_by_intent(state.intent)]
  /\ pc \in Nodes => Len(executed) < 5
  /\ pc \in {END, "returned"} => Len(executed) = 5

C2_Witness ==
  /\ pc = "returned"
  /\ executed = <<"classify_intent", "retrieve_context", "medication_agent",
                  "data_logger", "response_generator">>

\* C3: an error raised by the selected handler is caught: it never leaves
\* the run as an error of process_message.
C3_HandlerErrorCaught ==
  ~(pc = "raised" /\ error \in AgentNodes)

\* every value state["intent"] can hold
IntentValues == IntentType \cup LabelLines \cup {None}

\* the intents _route_by_intent names
RoutedIntents ==
  { SYMPTOM_ANALYSIS, HEALTH_TRACKING, MEDICATION_QUERY, MEDICATION_INTERACTION,
    EMERGENCY, REPORT_ANALYSIS, DIAGNOSIS_ASSISTANCE, LIFESTYLE_ADVICE }

\* C4: the router is total: for every intent value (each label, any other
\* string, None) it returns a key of the conditional-edge mapping, and an
\* intent it does not name takes the default edge to general_agent.
C4_RouterTotal ==
  /\ \A intent \in IntentValues :
       /\ route_by_intent(intent) \in DOMAIN ConditionalEdges
       /\ intent \notin RoutedIntents =>
            /\ route_by_intent(intent) = "default"
            /\ ConditionalEdges[route_by_intent(intent)] = "general_agent"
  /\ error # "retrieve_context"
  /\ route_key # None =>
       /\ route_key \in DOMAIN ConditionalEdges
       /\ (state.intent \notin RoutedIntents /\ Len(executed) >= 3) =>
            Handler = "general_agent"

C4_Witness ==
  /\ state.intent = "non_medical_query"
  /\ route_key = "default"
  /\ pc = "general_agent"

\* C5: at the end of every completed run the last two entries of agent_path
\* are data_logger and response_generator, whichever handler ran.
C5_PathEndsWithLoggerAndGenerator ==
  /\ pc \in {END, "returned"} =>
       Last2(state.agent_path) = <<"data_logger", "response_generator">>
  /\ pc = "returned" =>
       Last2(result.agent_path) = <<"data_logger", "response_generator">>

C5_Witness ==
  /\ pc = "returned"
  /\ Handler = "report_agent"
  /\ Len(result.agent_path) = 5

\* C6: when a handler's batch of lookups has returned, api_data holds
\* exactly one entry per requested lookup, a payload or a failure.
C6_OneEntryPerCall ==
  BatchReturned =>
    /\ DOMAIN batch.api_data = EntryNames(pc)
    /\ \A name \in DOMAIN batch.api_data :
         batch.api_data[name].kind \in {"payload", "error", "list"}

\* C7: an error thrown by one lookup is recorded for that lookup only, with
\* its message, and the outcomes of the other lookups of the batch stay
\* recorded.
C7_ThrownErrorIsolated ==
  BatchReturned =>
    \A k \in 1..Len(batch.results) :
      IF batch.results[k].kind = "raised"
      THEN \E name \in DOMAIN batch.api_data :
             /\ batch.api_data[name].kind = "error"
             /\ batch.api_data[name].message = batch.results[k].message
      ELSE EntryName(pc, k) \in DOMAIN batch.api_data

\* C8: the lookups of a batch are started without waiting for an earlier
\* lookup to finish: while a lookup of the batch has not been started, its
\* start is possible.
C8_StartNeverWaits ==
  (pc \in BatchNodes /\ at = "calls" /\ batch.started < Len(batch.calls)) =>
    ENABLED (StartCall("medication_agent") \/ StartCall("diagnosis_agent"))

\* the payload of the k-th lookup of the batch is in api_data
PayloadRecorded(k) ==
  /\ batch.results[k].kind = "ok"
  /\ EntryName(pc, k) \in DOMAIN batch.api_data
  /\ batch.api_data[EntryName(pc, k)].kind \in {"payload", "list"}

\* the budget of a batch, in seconds
overall_budget == timeout

\* C9: a batch is bounded by an overall budget: a lookup still pending when
\* the budget expires is abandoned, and the result it delivers later never
\* appears in api_data.  The only time limit the code configures is the
\* client's timeout, taken here as the budget.
C9_LateResultsDiscarded ==
  BatchReturned =>
    \A k \in 1..Len(batch.results) :
      FinishedAt(batch.results, k) > overall_budget => ~PayloadRecorded(k)

\* C10: when the response generator runs, agent_responses is exactly the
\* sequence of fragments the handler appended, each once and in order.
C10_FragmentsOnceInOrder ==
  pc \in {"data_logger", "response_generator", END, "returned"} =>
    state.agent_responses = fragments


(***************************************************************************)
(* The emergency answer.                                                   *)
(***************************************************************************)
\* C11: a run whose intent is emergency returns the fixed text of
\* _emergency_agent exactly (as written, or as _format_response leaves one
\* copy of it), whatever the request was, and no exception leaves the run.
C11_EmergencyTextExact ==
  (pc = "returned" /\ Handler = "emergency_agent") =>
    /\ result.response \in
         {emergency_response, format_response(emergency_response)}
    /\ error = None


(***************************************************************************)
(* The intent of a run.                                                    *)
(***************************************************************************)
\* C12: once _classify_intent has set the intent, no later node changes it,
\* and the intent process_message returns is the one the classifier set.
C12_IntentSetOnce ==
  [][ (pc \notin {"idle", "classify_intent"}) =>
        /\ state'.intent = state.intent
        /\ pc' = "returned" => result'.intent = state.intent ]_vars

\* a run that fell through to the general handler returns the classifier's
\* label
C12_Witness ==
  /\ pc = "returned"
  /\ Handler = "general_agent"
  /\ result.intent = "non_medical_query"
  /\ state.intent = "non_medical_query"


(***************************************************************************)
(* The trace of a run.                                                     *)
(***************************************************************************)
\* the entry a node writes to agent_path
PathName(node) ==
  CASE node = "classify_intent" -> "intent_classifier"
    [] node = "retrieve_context" -> "context_retriever"
    [] OTHER -> node

\* the nodes that have run to their end: all that started, but for the one
\* that is between its lookups or that raised
Completed ==
  IF pc = "raised" \/ at # "entry"
  THEN SubSeq(executed, 1, Len(executed) - 1)
  ELSE executed

\* C13: in every state of a run agent_path holds one entry for each node that
\* has executed so far, in execution order, whatever the node did inside
\* (several reports, no report at all, lookups).
C13_PathTracksExecution ==
  /\ Len(state.agent_path) = Len(Completed)
  /\ \A i \in 1..Len(Completed) : state.agent_path[i] = PathName(Completed[i])

\* the report handler went over two reports or more and left one entry
C13_Witness ==
  /\ pc = "returned"
  /\ Handler = "report_agent"
  /\ Len(state.user_context.uploaded_reports) >= 2
  /\ Len(result.agent_path) = 5


(***************************************************************************)
(* final_response.                                                         *)
(***************************************************************************)
\* how many times node has run
Runs(node) == Cardinality({ i \in 1..Len(executed) : executed[i] = node })

\* C14: final_response is empty in every state before _response_generator
\* has run, no other step writes it, and _response_generator runs exactly
\* once in a run that ends.
C14_FinalResponseWrittenOnce ==
  /\ Runs("response_generator") = 0 => state.final_response = <<>>
  /\ Runs("response_generator") <= 1
  /\ pc \in {END, "returned"} => Runs("response_generator") = 1

\* a run that ended with a text the generator wrote
C14_Witness ==
  /\ pc = "returned"
  /\ Runs("response_generator") = 1
  /\ state.final_response # <<>>
  /\ result.response = state.final_response


(***************************************************************************)
(* The classifier.                                                         *)
(***************************************************************************)
\* the message names a report ("Report ID:"), or reports are uploaded and the
\* message holds "analyze" or "report"
ReportRequest ==
  \/ has_report_id(state.user_message)
  \/ /\ state.user_context.uploaded_reports # <<>>
     /\ \/ Contains(Lower(state.user_message), <<"a","n","a","l","y","z","e">>)
        \/ Contains(Lower(state.user_message), <<"r","e","p","o","r","t">>)

\* the language-model calls the classifier has made
ClassifierCalls ==
  { i \in 1..Len(model_calls) : model_calls[i].node = "classify_intent" }

\* C15: for such a message _classify_intent sets the intent report_analysis
\* and no entities without calling the language model, and the run goes to
\* the report handler.
C15_ReportShortcut ==
  (executed # <<>> /\ ReportRequest) =>
    /\ state.intent = REPORT_ANALYSIS
    /\ state.extracted_entities = EmptyDict
    /\ ClassifierCalls = {}
    /\ error # "classify_intent"
    /\ Len(executed) >= 2 => route_key = REPORT_ANALYSIS
    /\ Len(executed) >= 3 => Handler = "report_agent"

\* "analyze it" with an uploaded report went to the report handler
C15_Witness ==
  /\ pc = "returned"
  /\ ~has_report_id(state.user_message)
  /\ ReportRequest
  /\ ClassifierCalls = {}
  /\ Handler = "report_agent"
  /\ result.intent = REPORT_ANALYSIS


\* the classifier called the model, and the "Entities:" line of the answer
\* was not valid JSON
MalformedEntities ==
  /\ ClassifierCalls # {}
  /\ model_calls[1].line = "malformed"

\* C16: when the entity line of the model's answer is not valid JSON the
\* entities are the empty map, the intent is still the label line, the parse
\* error leaves no trace, and the run goes on to the router.
C16_MalformedEntitiesIgnored ==
  MalformedEntities =>
    /\ state.extracted_entities = EmptyDict
    /\ state.intent = model_calls[1].label
    /\ error # "classify_intent"
    /\ Len(executed) = 1 => pc = "retrieve_context"
    /\ Len(executed) >= 2 => route_key = route_by_intent(model_calls[1].label)

\* the answer "medication_query" with a broken entity line reached the
\* medication handler
C16_Witness ==
  /\ MalformedEntities
  /\ model_calls[1].label = MEDICATION_QUERY
  /\ state.extracted_entities = EmptyDict
  /\ pc = "returned"
  /\ Handler = "medication_agent"


(***************************************************************************)
(* _symptom_agent as a function of the state it is handed: the state may   *)
(* already hold records in data_to_save.                                   *)
(***************************************************************************)
\* data_to_save as the handler may find it
PriorData ==
  { EmptyDict,
    [symptoms |-> <<[name |-> "fever"]>>],
    [vitals |-> <<[name |-> "pulse"]>>] }

HandlerInit ==
  /\ pc = "symptom_agent"
  /\ at = "entry"
  /\ \E m \in Messages, c \in Contexts, d \in PriorData,
        i \in {SYMPTOM_ANALYSIS, HEALTH_TRACKING} :
       /\ state = [InputWrite(initial_state(m, c)) EXCEPT
                     !.intent = i,
                     !.agent_path = <<"intent_classifier", "context_retriever">>,
                     !.data_to_save = d]
       /\ route_key = route_by_intent(i)
  /\ batch = NoBatch
  /\ executed = <<"classify_intent", "retrieve_context">>
  /\ fragments = <<>>
  /\ model_calls = <<>>
  /\ result = None
  /\ error = None
  /\ call = NoCall
  /\ db = <<>>
  /\ parked = None

HandlerNext ==
  \/ SymptomAgent
  \/ DataLogger
  \/ ResponseGenerator
  \/ Return

HandlerSpec == HandlerInit /\ [][HandlerNext]_vars

ReportHandlerDone ==
  /\ Len(executed) >= 3
  /\ Handler = "report_agent"
  /\ pc # "raised"

\* C18: with N >= 1 uploaded reports _report_agent appends exactly N
\* fragments, the answer for the i-th report as the i-th of them: whatever
\* the answers are when it is about to run, and as recorded once it has run
\* (one model call and one fragment per report).
C18_OneFragmentPerReport ==
  LET n == Len(state.user_context.uploaded_reports)
  IN  /\ (pc = "report_agent" /\ n >= 1) =>
           \A contents \in [1..n -> Replies] :
             report_agent(state, contents).agent_responses =
               state.agent_responses \o contents
      /\ (ReportHandlerDone /\ n >= 1) =>
           /\ Len(fragments) = n
           /\ Cardinality({ i \in 1..Len(model_calls) :
                              model_calls[i].node = "report_agent" }) = n

\* two reports gave two different fragments
C18_Witness ==
  /\ ReportHandlerDone
  /\ pc = "data_logger"
  /\ Len(state.user_context.uploaded_reports) = 2
  /\ Len(fragments) = 2
  /\ fragments[1] # fragments[2]


(***************************************************************************)
(* _response_generator and _format_response as functions of the fragments  *)
(* they are handed.                                                        *)
(***************************************************************************)
\* the characters the passes of _format_response tell apart
Chars == {"a", STAR, SP, NL}

\* every text of at most n characters
Texts(n) == UNION { [1..k -> Chars] : k \in 0..n }

\* agent_responses as the generator may find it: no fragment, one fragment of
\* any text, or several fragments
FragmentLists ==
  {<<>>}
  \cup { <<x>> : x \in Texts(MaxLen) }
  \cup { <<x, y>> : x, y \in Replies \cup {emergency_response} }
  \cup { <<x, <<"a">>, y>> : x, y \in Replies }

SynthInit ==
  /\ pc = "response_generator"
  /\ at = "entry"
  /\ \E fs \in FragmentLists :
       /\ state = [initial_state(<<"h", "e", "l", "l", "o">>,
                                 [uploaded_reports |-> <<>>,
                                  recent_symptoms |-> <<>>])
                     EXCEPT !.intent = GENERAL_MEDICAL_QUERY,
                            !.agent_path = <<"intent_classifier",
                                             "context_retriever",
                                             "general_agent", "data_logger">>,
                            !.agent_responses = fs]
       /\ fragments = fs
  /\ batch = NoBatch
  /\ executed = <<"classify_intent", "retrieve_context", "general_agent",
                  "data_logger">>
  /\ model_calls = <<>>
  /\ route_key = "default"
  /\ result = None
  /\ error = None
  /\ call = NoCall
  /\ db = <<>>
  /\ parked = None

SynthNext ==
  \/ ResponseGenerator
  \/ Return

SynthSpec == SynthInit /\ [][SynthNext]_vars

\* C19: the text _response_generator builds is the one fragment when there
\* is exactly one, otherwise the fragments joined by a blank line in their
\* order; final_response is _format_response of that text.
C19_SynthesizerJoinsFragments ==
  pc \in {END, "returned"} =>
    state.final_response =
      format_response(IF Len(fragments) = 1
                      THEN fragments[1]
                      ELSE Join(<<NL, NL>>, fragments))

\* two fragments came out with a blank line between them
C19_Witness ==
  /\ pc = "returned"
  /\ fragments = << <<"a">>, <<"*", "*", "b", "*", "*">> >>
  /\ result.response = <<"a", NL, NL, "b">>

\* C20: _format_response applied to its own output changes nothing.
C20_FormatIdempotent ==
  pc \in {END, "returned"} =>
    format_response(state.final_response) = state.final_response

\* a text the normalization changed, and that it then leaves alone
C20_Witness ==
  /\ pc = "returned"
  /\ Len(fragments) = 1
  /\ result.response # fragments[1]
  /\ result.response # <<>>
  /\ format_response(result.response) = result.response


(***************************************************************************)
(* What _format_response leaves in the text.                               *)
(***************************************************************************)
\* C21: whatever fragments the handler produced, final_response holds no
\* asterisk.
C21_NoAsterisk ==
  pc \in {END, "returned"} =>
    \A i \in 1..Len(state.final_response) : state.final_response[i] # STAR


(***************************************************************************)
(* The request and the caller's context.                                   *)
(***************************************************************************)
\* C24: no node changes the message, the user id, the conversation id, the
\* chat history or the user context: from the first node on they keep the
\* value process_message was given.
C24_RequestNeverMutated ==
  [][ pc # "idle" =>
        /\ state'.user_message = state.user_message
        /\ state'.user_id = state.user_id
        /\ state'.conversation_id = state.conversation_id
        /\ state'.chat_history = state.chat_history
        /\ state'.user_context = state.user_context ]_vars

\* the diagnosis handler built its list from the context's symptoms and the
\* extracted ones, and the context still holds its own
C24_Witness ==
  /\ pc = "returned"
  /\ Handler = "diagnosis_agent"
  /\ "symptoms" \in DOMAIN state.extracted_entities
  /\ Len(diagnosis_symptoms(state)) = 2
  /\ state.user_context.recent_symptoms = <<[symptom |-> "cough"]>>


(***************************************************************************)
(* The lookups and the event loop.                                         *)
(***************************************************************************)
\* C26: a handler that has lookups to make makes them whether or not an event
\* loop is running: when it reaches its model call with the loop found
\* running, it has started each of them, as it does when the loop is not
\* running.
C26_CallsMadeWhateverTheLoop ==
  (pc \in BatchNodes /\ at = "llm" /\ batch.status = "skipped") =>
    batch.started = Len(batch.calls)


(***************************************************************************)
(* The nodes that only leave their name.                                   *)
(***************************************************************************)
\* the state without one of its keys
Without(s, key) == [k \in (DOMAIN s) \ {key} |-> s[k]]

\* the step left every field but the trace and the fragment channel as it
\* was, and added name to the trace
OnlyTraced(name) ==
  /\ state'.agent_path = Append(state.agent_path, name)
  /\ \A k \in (DOMAIN state) \ {"agent_path", "agent_responses"} :
       state'[k] = state[k]

\* C27: _retrieve_context and _data_logger return the state they were given
\* with their name appended to agent_path and nothing else changed; given a
\* state without data_to_save, _data_logger also sets it to the empty
\* dict, and a data_to_save that is there stays as it is.
C27_PassThroughNodes ==
  [][ /\ pc = "retrieve_context" =>
           /\ retrieve_context(state) =
                [state EXCEPT !.agent_path = Append(@, "context_retriever")]
           /\ OnlyTraced("context_retriever")
      /\ pc = "data_logger" =>
           /\ data_logger(state) =
                [state EXCEPT !.agent_path = Append(@, "data_logger")]
           /\ Without(data_logger(Without(state, "data_to_save")),
                      "data_to_save") =
                Without([state EXCEPT !.agent_path = Append(@, "data_logger")],
                        "data_to_save")
           /\ data_logger(Without(state, "data_to_save")).data_to_save =
                EmptyDict
           /\ OnlyTraced("data_logger") ]_vars

\* both nodes ran over entities and data that are still there
C27_Witness ==
  /\ pc = "response_generator"
  /\ Handler = "symptom_agent"
  /\ state.extracted_entities # EmptyDict
  /\ state.data_to_save # EmptyDict
  /\ Last2(state.agent_path) = <<"symptom_agent", "data_logger">>


(***************************************************************************)
(* The "Extracted Data:" section of the symptom analyzer's answer.         *)
(***************************************************************************)
\* C28: whatever the model answers, _symptom_agent appends the answer as one
\* fragment and its name to agent_path and returns; without an "Extracted
\* Data:" section, or with one that is not valid JSON, data_to_save is as it
\* was; with one that parses, data_to_save["symptoms"] is the symptom list
\* of the section.
C28_SymptomDataParsed ==
  pc = "symptom_agent" =>
    \A reply \in SymptomReplies :
      LET after == symptom_agent(state, reply)
      IN  /\ after.agent_responses =
               Append(state.agent_responses, reply.content)
          /\ after.agent_path = Append(state.agent_path, "symptom_agent")
          /\ reply.section.kind # "json" =>
               after.data_to_save = state.data_to_save
          /\ reply.section.kind = "json" =>
               /\ "symptoms" \in DOMAIN after.data_to_save
               /\ after.data_to_save["symptoms"] =
                    IF "symptoms" \in DOMAIN reply.section.value
                    THEN reply.section.value["symptoms"]
                    ELSE <<>>

\* an answer whose section did not count left the records found in place
C28_Witness ==
  /\ pc = "data_logger"
  /\ Handler = "symptom_agent"
  /\ fragments = << <<"a", "D">> >>
  /\ state.data_to_save = [vitals |-> <<[name |-> "pulse"]>>]
  /\ Last2(state.agent_path) = <<"context_retriever", "symptom_agent">>


(***************************************************************************)
(* MedicalAPIService: the lookups as functions of what their HTTP requests *)
(* meet.  An exception is a value of kind "raise" until an except clause   *)
(* turns it into the failure value {"error": str(e)}.                      *)
(***************************************************************************)
\* how one "await self.client.get(...)", raise_for_status() and
\* response.json() can go: a body with results, a body without, or an
\* exception (no connection, the client's timeout, an error status, a body
\* that is not the JSON expected)
HttpFailures == {"connect_error", "timeout", "status_error", "malformed_body"}

HttpOutcomes == {"found", "empty"} \cup HttpFailures

raise(message) == [kind |-> "raise", message |-> message]

\* {"error": <message>}
failure(message) == [kind |-> "error", message |-> message]

\* response = await self.client.get(...); response.raise_for_status();
\* data = response.json()
request(outcome) ==
  IF outcome \in HttpFailures
  THEN raise(outcome)
  ELSE [kind |-> "data", results |-> (outcome = "found")]

\* except Exception as e: return {"error": str(e)}
except_Exception(v) == IF v.kind = "raise" THEN failure(v.message) ELSE v

\* the label OpenFDA holds for the drug: the fields the safety analysis reads
DrugLabels ==
  { [active_ingredient |-> <<"a", "s", "p">>, warnings |-> <<"f", "l", "u">>],
    [active_ingredient |-> <<"U">>, warnings |-> <<"N">>] }

\* search_drug_info without its try/except
search_drug_info_body(outcome, label) ==
  LET data == request(outcome)
  IN  IF data.kind = "raise" THEN data
      ELSE IF data.results
      THEN [kind |-> "payload",
            active_ingredient |-> label.active_ingredient,
            warnings |-> label.warnings]
      ELSE failure("Drug not found")

\* search_drug_info with the request made before the try block
search_drug_info_RequestOutsideTry(outcome, label) ==
  search_drug_info_body(outcome, label)

search_drug_info(outcome, label) ==
  except_Exception(search_drug_info_body(outcome, label))

\* the lookups that return one dict and read nothing else of the body
plain_lookup_body(outcome, not_found) ==
  LET data == request(outcome)
  IN  IF data.kind = "raise" THEN data
      ELSE IF data.results THEN [kind |-> "payload"]
      ELSE failure(not_found)

search_rxnorm(outcome) ==
  except_Exception(plain_lookup_body(outcome, "Drug not found in RxNorm"))

check_drug_interactions(outcome) ==
  except_Exception(
    plain_lookup_body(outcome, "No interaction information found"))

\* search_medical_literature: the search for ids, then the summaries; its
\* failure value is the list [{"error": str(e)}]
search_medical_literature_body(search, summary) ==
  LET search_data == request(search)
  IN  IF search_data.kind = "raise" THEN search_data
      ELSE IF ~search_data.results THEN [kind |-> "list", items |-> 0]
      ELSE LET summary_data == request(summary)
           IN  IF summary_data.kind = "raise" THEN summary_data
               ELSE [kind |-> "list", items |-> 1]

search_medical_literature(search, summary) ==
  LET v == search_medical_literature_body(search, summary)
  IN  IF v.kind = "raise"
      THEN [kind |-> "error_list", message |-> v.message]
      ELSE v

calculate_safety_score(allergy_warnings, condition_warnings) ==
  LET total_warnings == Len(allergy_warnings) + Len(condition_warnings)
  IN  IF total_warnings = 0 THEN "SAFE"
      ELSE IF total_warnings <= 2 THEN "CAUTION"
      ELSE "HIGH_RISK"

\* the allergies found in the active ingredient
allergy_warnings_of(fda_info, user_allergies) ==
  IF fda_info.kind = "payload" /\ fda_info.active_ingredient # <<>>
  THEN SelectSeq(user_allergies,
                 LAMBDA allergy :
                   Contains(Lower(fda_info.active_ingredient), Lower(allergy)))
  ELSE <<>>

\* the conditions found in fda_info.get("warnings", "")
condition_warnings_of(fda_info, user_conditions) ==
  LET warnings_text ==
        IF fda_info.kind = "payload" THEN Lower(fda_info.warnings) ELSE <<>>
  IN  SelectSeq(user_conditions,
                LAMBDA condition : Contains(warnings_text, Lower(condition)))

\* analyze_medication_safety without its try/except; outcomes holds what the
\* requests of its three lookups meet
analyze_medication_safety_body(outcomes, label, user_allergies, user_conditions) ==
  LET fda_info == search_drug_info(outcomes[1], label)
      rxnorm_info == search_rxnorm(outcomes[2])
      interaction_info == check_drug_interactions(outcomes[3])
      allergy_warnings == allergy_warnings_of(fda_info, user_allergies)
      condition_warnings == condition_warnings_of(fda_info, user_conditions)
  IN  IF fda_info.kind = "raise" THEN fda_info
      ELSE IF rxnorm_info.kind = "raise" THEN rxnorm_info
      ELSE IF interaction_info.kind = "raise" THEN interaction_info
      ELSE [kind |-> "payload",
            safety_score |->
              calculate_safety_score(allergy_warnings, condition_warnings),
            allergy_warnings |-> allergy_warnings,
            condition_warnings |-> condition_warnings,
            fda_information |-> fda_info.kind,
            rxnorm_data |-> rxnorm_info.kind,
            interaction_warnings |-> interaction_info.kind]

analyze_medication_safety(outcomes, label, user_allergies, user_conditions) ==
  except_Exception(
    analyze_medication_safety_body(outcomes, label, user_allergies,
                                   user_conditions))

\* the allergens and the condition names of a user; a name is a string
\* column that cannot be null and can be empty
AllergyLists ==
  { <<>>, << <<"a", "s", "p">> >>, << <<"A", "S">>, <<"s", "p">> >>,
    << <<"x">> >> }

ConditionLists ==
  { <<>>, << <<"f", "l", "u">> >>, << <<>> >>, << <<"F", "L">>, <<"u">> >>,
    << <<"y">> >> }

Pending == [kind |-> "pending"]

\* the calls under study, before they are made
ClientCalls ==
  { [method |-> m, outcomes |-> <<o>>, label |-> l, user_allergies |-> <<>>,
     user_conditions |-> <<>>, returned |-> Pending] :
      m \in {"search_drug_info", "search_rxnorm", "check_drug_interactions"},
      o \in HttpOutcomes, l \in DrugLabels }
  \cup
  { [method |-> "search_medical_literature", outcomes |-> <<o1, o2>>,
     label |-> l, user_allergies |-> <<>>, user_conditions |-> <<>>,
     returned |-> Pending] :
      o1 \in HttpOutcomes, o2 \in HttpOutcomes, l \in DrugLabels }
  \cup
  { [method |-> "analyze_medication_safety", outcomes |-> <<o1, o2, o3>>,
     label |-> l, user_allergies |-> a, user_conditions |-> c,
     returned |-> Pending] :
      o1 \in HttpOutcomes, o2 \in HttpOutcomes, o3 \in HttpOutcomes,
      l \in DrugLabels, a \in AllergyLists, c \in ConditionLists }

ClientInit ==
  /\ pc = "client"
  /\ at = "entry"
  /\ state = InputWrite(initial_state(<<>>, [uploaded_reports |-> <<>>,
                                             recent_symptoms |-> <<>>]))
  /\ batch = NoBatch
  /\ executed = <<>>
  /\ fragments = <<>>
  /\ model_calls = <<>>
  /\ route_key = None
  /\ result = None
  /\ error = None
  /\ call \in ClientCalls
  /\ db = <<>>
  /\ parked = None

\* the method returns (or raises) what the function gives for the inputs
Returns(method, value) ==
  /\ pc = "client"
  /\ call.method = method
  /\ call.returned = Pending
  /\ call' = [call EXCEPT !.returned = value]
  /\ UNCHANGED <<pc, at, state, batch, executed, fragments, model_calls,
                 route_key, result, error, db, parked>>

SearchDrugInfo ==
  Returns("search_drug_info", search_drug_info(call.outcomes[1], call.label))

SearchRxnorm ==
  Returns("search_rxnorm", search_rxnorm(call.outcomes[1]))

CheckDrugInteractions ==
  Returns("check_drug_interactions", check_drug_interactions(call.outcomes[1]))

SearchMedicalLiterature ==
  Returns("search_medical_literature",
          search_medical_literature(call.outcomes[1], call.outcomes[2]))

AnalyzeMedicationSafety ==
  Returns("analyze_medication_safety",
          analyze_medication_safety(call.outcomes, call.label,
                                    call.user_allergies, call.user_conditions))

ClientNext ==
  \/ SearchDrugInfo
  \/ SearchRxnorm
  \/ CheckDrugInteractions
  \/ SearchMedicalLiterature
  \/ AnalyzeMedicationSafety

ClientSpec == ClientInit /\ [][ClientNext]_vars

\* the call under study has ended
CallEnded == call.method # "none" /\ call.returned # Pending

\* some request of the call met a failure
RequestFailed ==
  \E i \in 1..Len(call.outcomes) : call.outcomes[i] \in HttpFailures

\* C22: no method of MedicalAPIService raises when a request of its fails
\* (no connection, timeout, error status, malformed body): a lookup returns
\* its failure value, and analyze_medication_safety, which calls other
\* lookups, returns as well.
C22_ClientNeverRaises ==
  CallEnded =>
    /\ call.returned.kind # "raise"
    /\ (call.outcomes[1] \in HttpFailures) =>
         call.returned.kind =
           CASE call.method = "search_medical_literature" -> "error_list"
             [] call.method = "analyze_medication_safety" -> "payload"
             [] OTHER -> "error"

\* the safety analysis returned although each of its lookups failed in its
\* own way
C22_Witness ==
  /\ CallEnded
  /\ call.method = "analyze_medication_safety"
  /\ call.outcomes = <<"timeout", "status_error", "malformed_body">>
  /\ call.returned.kind = "payload"
  /\ call.returned.fda_information = "error"


\* the score for a number of warnings
ScoreFor(n) == IF n = 0 THEN "SAFE" ELSE IF n <= 2 THEN "CAUTION" ELSE "HIGH_RISK"

\* C30: the safety score of analyze_medication_safety is given by the number
\* of allergy and condition warnings alone (0 SAFE, 1 or 2 CAUTION, 3 or more
\* HIGH_RISK), and when the drug lookup returns a failure value the analysis
\* still returns its full result, with both warning lists empty and the
\* score SAFE.
C30_SafetyScore ==
  (CallEnded /\ call.method = "analyze_medication_safety") =>
    /\ call.returned.kind = "payload"
    /\ call.returned.safety_score =
         ScoreFor(Len(call.returned.allergy_warnings) +
                  Len(call.returned.condition_warnings))
    /\ call.outcomes[1] # "found" =>
         /\ call.returned.allergy_warnings = <<>>
         /\ call.returned.condition_warnings = <<>>
         /\ call.returned.safety_score = "SAFE"


(***************************************************************************)
(* The chat endpoint: send_message around process_message.                 *)
(***************************************************************************)
Digits == <<"0", "1", "2", "3", "4", "5", "6", "7", "8", "9">>

IsDigit(c) == \E k \in 1..Len(Digits) : Digits[k] = c

DigitValue(c) == (CHOOSE k \in 1..Len(Digits) : Digits[k] = c) - 1

\* the first position >= i of s that holds no white space
RECURSIVE SkipSpace(_, _)
SkipSpace(s, i) ==
  IF i <= Len(s) /\ IsSpace(s[i]) THEN SkipSpace(s, i + 1) ELSE i

\* the first position >= i of s that holds no digit
RECURSIVE DigitsEnd(_, _)
DigitsEnd(s, i) ==
  IF i <= Len(s) /\ IsDigit(s[i]) THEN DigitsEnd(s, i + 1) ELSE i

\* int() of the digits s[i..j-1], after the value acc of the digits before
RECURSIVE IntOf(_, _, _, _)
IntOf(s, i, j, acc) ==
  IF i >= j THEN acc ELSE IntOf(s, i + 1, j, 10 * acc + DigitValue(s[i]))

\* the regular expression the variant below looks for: ID:\s*(\d+)
RECURSIVE FindBareIds(_, _)
FindBareIds(s, i) ==
  IF i > Len(s) THEN <<>>
  ELSE LET d == SkipSpace(s, i + 3)
           e == DigitsEnd(s, d)
       IN  IF /\ i + 2 <= Len(s)
              /\ Lower(SubSeq(s, i, i + 1)) = <<"i", "d">>
              /\ s[i + 2] = ":"
              /\ e > d
           THEN <<IntOf(s, d, e, 0)>> \o FindBareIds(s, e)
           ELSE FindBareIds(s, i + 1)

\* extract_report_ids_from_message with a pattern that starts at "ID:"
extract_report_ids_from_message_BareId(message) == FindBareIds(message, 1)

\* re.findall(r'Report\s+ID:\s*(\d+)', s, re.IGNORECASE) from position i
RECURSIVE FindIds(_, _)
FindIds(s, i) ==
  IF i > Len(s) THEN <<>>
  ELSE LET b == SkipSpace(s, i + 6)
           d == SkipSpace(s, b + 3)
           e == DigitsEnd(s, d)
       IN  IF /\ i + 5 <= Len(s)
              /\ Lower(SubSeq(s, i, i + 5)) = <<"r", "e", "p", "o", "r", "t">>
              /\ b > i + 6
              /\ b + 2 <= Len(s)
              /\ Lower(SubSeq(s, b, b + 1)) = <<"i", "d">>
              /\ s[b + 2] = ":"
              /\ e > d
           THEN <<IntOf(s, d, e, 0)>> \o FindIds(s, e)
           ELSE FindIds(s, i + 1)

extract_report_ids_from_message(message) == FindIds(message, 1)

\* request.message
ChatMessages ==
  { <<"h", "e", "l", "l", "o">>,
    <<"R", "e", "p", "o", "r", "t", " ", "I", "D", ":", " ", "1">>,
    <<"R", "e", "p", "o", "r", "t", " ", " ", "I", "D", ":", "1">>,
    <<"R", "E", "P", "O", "R", "T", " ", "I", "D", ":", " ", "2", " ", "r", "e", "p", "o", "r", "t", " ", "i", "d", ":", " ", "1">>,
    <<"s", "e", "e", " ", "I", "D", ":", " ", "1">>,
    <<"r", "e", "p", "o", "r", "t", " ", "i", "d", " ", "1">> }

\* get_user_context: no uploaded_reports key yet
UserContexts ==
  { [uploaded_reports |-> <<>>, recent_symptoms |-> rs] :
      rs \in { <<>>, <<[symptom |-> "cough"]>> } }

\* reports_data: one entry for each id of the message that is a report of
\* the user (owned), in the order of the message
reports_data(report_ids, owned) ==
  LET found == SelectSeq(report_ids, LAMBDA report_id : report_id \in owned)
  IN  [i \in 1..Len(found) |-> [id |-> found[i]]]

\* user_context as send_message hands it to process_message
chat_user_context(message, user_context, owned) ==
  LET report_ids == extract_report_ids_from_message(message)
  IN  IF report_ids # <<>>
      THEN [user_context EXCEPT
              !.uploaded_reports = reports_data(report_ids, owned)]
      ELSE user_context

\* send_message up to the first node of the graph
SendMessage ==
  /\ pc = "idle"
  /\ \E m \in ChatMessages, c \in UserContexts, owned \in SUBSET (1..MaxReports) :
       state' = InputWrite(initial_state(m, chat_user_context(m, c, owned)))
  /\ pc' = EntryPoint
  /\ UNCHANGED <<at, batch, executed, fragments, model_calls, route_key, result,
                 error, call, db, parked>>

\* save_extracted_data with the key of the symptoms misspelt
save_extracted_data_WrongKey(data) ==
  IF "symptom" \in DOMAIN data
  THEN [i \in 1..Len(data["symptom"]) |->
          [table |-> "symptoms", symptom_name |-> data["symptom"][i].name]]
  ELSE <<>>

\* the rows save_extracted_data adds (the engine writes no vital_signs and
\* no medications key)
save_extracted_data(data) ==
  IF "symptoms" \in DOMAIN data
  THEN [i \in 1..Len(data["symptoms"]) |->
          [table |-> "symptoms", symptom_name |-> data["symptoms"][i].name]]
  ELSE <<>>

\* send_message after process_message has returned
SaveExtractedData ==
  /\ pc = "returned"
  /\ db' = IF result.data_to_save # EmptyDict
           THEN db \o save_extracted_data(result.data_to_save)
           ELSE db
  /\ pc' = "responded"
  /\ UNCHANGED <<at, state, batch, executed, fragments, model_calls, route_key,
                 result, error, call, parked>>

ChatNext ==
  \/ SendMessage
  \/ ClassifyIntent
  \/ RetrieveContext
  \/ SymptomAgent
  \/ MedicationAgent
  \/ ReportAgent
  \/ DiagnosisAgent
  \/ LifestyleAgent
  \/ EmergencyAgent
  \/ GeneralAgent
  \/ DataLogger
  \/ ResponseGenerator
  \/ Return
  \/ SaveExtractedData

ChatSpec == Init /\ [][ChatNext]_vars

\* the rows for a list of symptoms
SymptomRows(data) ==
  IF "symptoms" \in DOMAIN data
  THEN [i \in 1..Len(data["symptoms"]) |->
          [table |-> "symptoms", symptom_name |-> data["symptoms"][i].name]]
  ELSE <<>>

\* C25: nothing is saved while the graph runs or when it raised; data is
\* saved by send_message, after process_message has returned, and what is
\* saved is the data_to_save that process_message returned.
C25_SavedByCallerAfterReturn ==
  /\ pc # "responded" => db = <<>>
  /\ pc = "responded" => db = SymptomRows(result.data_to_save)

\* the symptom of the analyzer's answer was saved after the run
C25_Witness ==
  /\ pc = "responded"
  /\ result.data_to_save = [symptoms |-> <<[name |-> "headache"]>>]
  /\ db = <<[table |-> "symptoms", symptom_name |-> "headache"]>>

\* C29: when send_message has put a non-empty uploaded_reports list into the
\* context, _classify_intent takes its shortcut for the message: the intent
\* is report_analysis without a model call, the run goes to the report
\* handler, and the handler makes one fragment for each report attached.
C29_AttachedReportsAreAnalyzed ==
  (executed # <<>> /\ state.user_context.uploaded_reports # <<>>) =>
    /\ state.intent = REPORT_ANALYSIS
    /\ ClassifierCalls = {}
    /\ Len(executed) >= 3 => Handler = "report_agent"
    /\ ReportHandlerDone =>
         Len(fragments) = Len(state.user_context.uploaded_reports)

\* a message that only the second alternative of the shortcut catches, with
\* its report attached and analyzed
C29_Witness ==
  /\ pc = "responded"
  /\ ~has_report_id(state.user_message)
  /\ state.user_context.uploaded_reports = <<[id |-> 1]>>
  /\ Handler = "report_agent"
  /\ Len(fragments) = 1


(***************************************************************************)
(* Two calls of process_message on the one agent_orchestrator: the run     *)
(* whose step is next holds pc .. error, the other one waits in parked.    *)
(***************************************************************************)
\* the local state of the run that is running
Locals ==
  [pc |-> pc, at |-> at, state |-> state, batch |-> batch,
   executed |-> executed, fragments |-> fragments,
   model_calls |-> model_calls, route_key |-> route_key, result |-> result,
   error |-> error]

\* a call of process_message that has not started
IdleRun ==
  [pc |-> "idle", at |-> "entry",
   state |-> InputWrite(initial_state(<<>>, [uploaded_reports |-> <<>>,
                                             recent_symptoms |-> <<>>])),
   batch |-> NoBatch, executed |-> <<>>, fragments |-> <<>>,
   model_calls |-> <<>>, route_key |-> None, result |-> None,
   error |-> None]

\* the messages and contexts of the two calls
PairMessages ==
  { <<"R", "e", "p", "o", "r", "t", " ", "I", "D", ":", " ", "1">>,
    <<"r", "e", "p", "o", "r", "t", " ", "i", "d", " ", "2">> }

PairContexts == { c \in Contexts : c.recent_symptoms = <<>> }

\* process_message with its lists taken from module-level defaults, which
\* the other call uses as well
fresh_state_SharedLists(user_message, user_context, other) ==
  [InputWrite(initial_state(user_message, user_context)) EXCEPT
     !.agent_responses = other.state.agent_responses,
     !.actions = other.state.actions]

\* the state a call of process_message starts from: every dict and list of
\* initial_state is a new object, whatever the other call holds
fresh_state(user_message, user_context, other) ==
  InputWrite(initial_state(user_message, user_context))

PairInit ==
  /\ pc = "idle"
  /\ at = "entry"
  /\ state = IdleRun.state
  /\ batch = NoBatch
  /\ executed = <<>>
  /\ fragments = <<>>
  /\ model_calls = <<>>
  /\ route_key = None
  /\ result = None
  /\ error = None
  /\ call = NoCall
  /\ db = <<>>
  /\ parked = IdleRun

\* process_message of the running call up to the first node
StartRun ==
  /\ pc = "idle"
  /\ \E m \in PairMessages, c \in PairContexts :
       state' = fresh_state(m, c, parked)
  /\ pc' = EntryPoint
  /\ UNCHANGED <<at, batch, executed, fragments, model_calls, route_key, result,
                 error, call, db, parked>>

\* the other call goes on: the event loop and the threads of the nodes
\* pass between the calls at any point
Switch ==
  /\ parked' = Locals
  /\ pc' = parked.pc
  /\ at' = parked.at
  /\ state' = parked.state
  /\ batch' = parked.batch
  /\ executed' = parked.executed
  /\ fragments' = parked.fragments
  /\ model_calls' = parked.model_calls
  /\ route_key' = parked.route_key
  /\ result' = parked.result
  /\ error' = parked.error
  /\ UNCHANGED <<call, db>>

PairNext ==
  \/ StartRun
  \/ ClassifyIntent
  \/ RetrieveContext
  \/ ReportAgent
  \/ DataLogger
  \/ ResponseGenerator
  \/ Return
  \/ Switch

PairSpec == PairInit /\ [][PairNext]_vars

\* what process_message returns for a message the shortcut catches when it
\* runs alone and the model answers contents for the reports
AloneResult(user_message, user_context, contents) ==
  LET s0 == InputWrite(initial_state(user_message, user_context))
      s1 == ChannelUpdate(classify_intent(s0, None, None))
      s2 == ChannelUpdate(retrieve_context(s1))
      s3 == ChannelUpdate(report_agent(s2, contents))
      s4 == ChannelUpdate(data_logger(s3))
      s5 == ChannelUpdate(response_generator(s4))
  IN  [response |-> s5.final_response,
       intent |-> s5.intent,
       data_to_save |-> s5.data_to_save,
       agent_path |-> s5.agent_path,
       metadata |-> s5.metadata]

====
